---- MODULE Spec2Model ----
(***************************************************************************)
(* google-analytics-mcp (src/google-analytics-mcp/src/index.js): seven     *)
(* MCP tools that shape their arguments into a GA4 report request, await   *)
(* the backend client and wrap the first element of its response tuple in  *)
(* a text envelope.                                                        *)
(*                                                                         *)
(* Representation of JavaScript values:                                    *)
(*   - an object is a function from its keys to their values; a key whose  *)
(*     value is undefined is absent from the DOMAIN (args, env, request);  *)
(*   - a string-or-undefined scalar uses the sentinel `undefined`;         *)
(*   - an array is a sequence;                                             *)
(*   - a JSON value of a backend result is a tagged record (JNum, ...).    *)
(***************************************************************************)
EXTENDS Integers, Sequences, FiniteSets, TLC

\* ------------------------------------------------------------------ bounds
MaxLen == 2        \* longest dimensions / metrics name list a caller supplies
MaxRanges == 1     \* longest dateRanges list a caller supplies
MaxInv == 2        \* invocations the host runtime holds in flight at once
MaxFailures == 2   \* backend rejections followed in one behaviour

\* ------------------------------------------------------- JavaScript values
undefined == "<undefined>"
NoObj == [k \in {} |-> k]

Get(obj, key) == IF key \in DOMAIN obj THEN obj[key] ELSE undefined

\* truthiness of a string-or-undefined value: undefined and "" are falsy
Truthy(s) == s # undefined /\ s # ""

\* a || b on string-or-undefined values
JsOr(a, b) == IF Truthy(a) THEN a ELSE b

\* { [key]: v } for each v of S, and the object without the key
Opt(key, S) == {NoObj} \cup {key :> v : v \in S}

SeqsUpTo(S, n) == UNION {[1..k -> S] : k \in 0..n}

\* ---------------------------------------------------------------- state
VARIABLES
    env,          \* process.env after dotenv.config()
    propertyId,   \* the module constant of line 9
    invocation,   \* per in-flight slot: the tool call the transport dispatched
    failures      \* number of backend rejections so far

vars == <<env, propertyId, invocation, failures>>

Slots == 1..MaxInv

\* ------------------------------------------------------------ buildProperty
buildPropertyNoGuard(overrides) ==
    "properties/" \o JsOr(Get(overrides, "propertyId"), propertyId)

buildProperty(overrides) ==
    LET id == JsOr(Get(overrides, "propertyId"), propertyId)
    IN  IF ~Truthy(id) THEN undefined ELSE "properties/" \o id

\* { property: p } as an object: the key is absent when p is undefined
PropertyField(p) == IF p = undefined THEN NoObj ELSE [property |-> p]

\* ----------------------------------------------------- (name) => ({ name })
MapNameReversed(names) ==
    [i \in 1..Len(names) |-> [name |-> names[Len(names) + 1 - i]]]

MapName(names) == [i \in 1..Len(names) |-> [name |-> names[i]]]

\* ------------------------------------------------------------ JSON values
JNull == [t |-> "null"]
JNum(n) == [t |-> "num", n |-> n]
JStr(s) == [t |-> "str", s |-> s]
JArr(a) == [t |-> "arr", a |-> a]
\* an object keeps its keys in insertion order: a sequence of [k, v] entries
JObj(o) == [t |-> "obj", o |-> o]

\* the model's strings hold no character that JSON escapes
Quote(s) == "\"" \o s \o "\""

RECURSIVE Stringify(_, _), JoinElems(_, _, _), JoinProps(_, _, _)

\* JSON.stringify(value, null, 2), at current indentation ind
Stringify(value, ind) ==
    CASE value.t = "null" -> "null"
      [] value.t = "num" -> ToString(value.n)
      [] value.t = "str" -> Quote(value.s)
      [] value.t = "arr" ->
            IF Len(value.a) = 0 THEN "[]"
            ELSE "[\n" \o ind \o "  " \o JoinElems(value.a, ind \o "  ", 1)
                 \o "\n" \o ind \o "]"
      [] value.t = "obj" ->
            IF Len(value.o) = 0 THEN "{}"
            ELSE "{\n" \o ind \o "  " \o JoinProps(value.o, ind \o "  ", 1)
                 \o "\n" \o ind \o "}"

JoinElems(a, ind, i) ==
    IF i = Len(a) THEN Stringify(a[i], ind)
    ELSE Stringify(a[i], ind) \o ",\n" \o ind \o JoinElems(a, ind, i + 1)

JoinProps(o, ind, i) ==
    LET member == Quote(o[i].k) \o ": " \o Stringify(o[i].v, ind)
    IN  IF i = Len(o) THEN member
        ELSE member \o ",\n" \o ind \o JoinProps(o, ind, i + 1)

\* JSON.stringify(value) without the indent argument
RECURSIVE StringifyCompact(_), JoinElemsCompact(_, _), JoinPropsCompact(_, _)

StringifyCompact(value) ==
    CASE value.t = "null" -> "null"
      [] value.t = "num" -> ToString(value.n)
      [] value.t = "str" -> Quote(value.s)
      [] value.t = "arr" ->
            IF Len(value.a) = 0 THEN "[]"
            ELSE "[" \o JoinElemsCompact(value.a, 1) \o "]"
      [] value.t = "obj" ->
            IF Len(value.o) = 0 THEN "{}"
            ELSE "{" \o JoinPropsCompact(value.o, 1) \o "}"

JoinElemsCompact(a, i) ==
    IF i = Len(a) THEN StringifyCompact(a[i])
    ELSE StringifyCompact(a[i]) \o "," \o JoinElemsCompact(a, i + 1)

JoinPropsCompact(o, i) ==
    LET member == Quote(o[i].k) \o ":" \o StringifyCompact(o[i].v)
    IN  IF i = Len(o) THEN member
        ELSE member \o "," \o JoinPropsCompact(o, i + 1)

\* -------------------------------------------------------- toToolTextContent
toToolTextContentCompact(obj) ==
    [content |-> << [type |-> "text", text |-> StringifyCompact(obj)] >>]

toToolTextContent(obj) ==
    [content |-> << [type |-> "text", text |-> Stringify(obj, "")] >>]

\* ------------------------------------------------------------ input schemas
\* z.<type>().default(dflt).optional(): an absent key stays absent when the
\* optional wrapper answers first, or takes dflt when the default is reached;
\* which of the two depends on the zod release installed.
ZodDefaultOptional(args, key, dflt, applies) ==
    IF key \in DOMAIN args \/ ~applies THEN args ELSE args @@ (key :> dflt)

\* z.array(...).nonempty() on a required key
NonEmptyArray(args, key) == key \in DOMAIN args /\ Len(args[key]) > 0

ReportSchemaLax(args) ==
    /\ "dateRanges" \in DOMAIN args
    /\ "metrics" \in DOMAIN args
    /\ ("limit" \in DOMAIN args => args.limit > 0)
    /\ ("offset" \in DOMAIN args => args.offset >= 0)

\* the inputSchema shared by query_analytics and get_custom_report
ReportSchema(args) ==
    /\ NonEmptyArray(args, "dateRanges")
    /\ NonEmptyArray(args, "metrics")
    /\ ("limit" \in DOMAIN args => args.limit > 0)
    /\ ("offset" \in DOMAIN args => args.offset >= 0)

RealtimeSchema(args, applies) ==
    ZodDefaultOptional(
        ZodDefaultOptional(args, "dimensions", <<"country">>, applies),
        "metrics", <<"activeUsers">>, applies)

PresetSchema(args, applies) ==
    ZodDefaultOptional(
        ZodDefaultOptional(args, "startDate", "7daysAgo", applies),
        "endDate", "today", applies)

CustomReportDefaults(args, applies) ==
    ZodDefaultOptional(args, "dimensions", <<>>, applies)

\* ---------------------------------------------------------- request shapes
Pick(obj, keys) == [k \in (DOMAIN obj) \cap keys |-> obj[k]]

PassThrough ==
    {"dimensionFilter", "metricFilter", "limit", "offset", "orderBys"}

\* (args.dimensions || dflt)
ArrayOr(args, key, dflt) == IF key \in DOMAIN args THEN args[key] ELSE dflt

\* the object literal of query_analytics and get_custom_report
ReportRequest(args) ==
    PropertyField(buildProperty(args))
    @@ [dateRanges |-> args.dateRanges,
        dimensions |-> MapName(ArrayOr(args, "dimensions", <<>>)),
        metrics |-> MapName(args.metrics)]
    @@ Pick(args, PassThrough)

RealtimeRequestSwapped(args) ==
    PropertyField(buildProperty(args))
    @@ [dimensions |-> MapName(ArrayOr(args, "dimensions", <<"activeUsers">>)),
        metrics |-> MapName(ArrayOr(args, "metrics", <<"country">>))]

RealtimeRequest(args) ==
    PropertyField(buildProperty(args))
    @@ [dimensions |-> MapName(ArrayOr(args, "dimensions", <<"country">>)),
        metrics |-> MapName(ArrayOr(args, "metrics", <<"activeUsers">>))]

\* a destructuring default (startDate = "7daysAgo"): taken only for undefined
ParamDefaultFalsy(args, key, dflt) ==
    IF Truthy(Get(args, key)) THEN args[key] ELSE dflt

ParamDefault(args, key, dflt) ==
    IF key \in DOMAIN args THEN args[key] ELSE dflt

\* the body shared, textually, by the four fixed-preset handlers
PresetRequest(args, dimensions, metrics) ==
    LET overrideId == Get(args, "propertyId")
        startDate == ParamDefault(args, "startDate", "7daysAgo")
        endDate == ParamDefault(args, "endDate", "today")
    IN  PropertyField(buildProperty(
            IF overrideId = undefined THEN NoObj ELSE [propertyId |-> overrideId]))
        @@ [dateRanges |-> << [startDate |-> startDate, endDate |-> endDate] >>,
            dimensions |-> MapName(dimensions),
            metrics |-> MapName(metrics)]

TrafficSourcesRequest(args) ==
    PresetRequest(args, <<"source", "medium">>, <<"sessions">>)

UserDemographicsRequest(args) ==
    PresetRequest(args, <<"country", "city">>, <<"activeUsers">>)

PagePerformanceRequest(args) ==
    PresetRequest(args, <<"pagePath">>,
                  <<"screenPageViews", "averageSessionDuration">>)

ConversionDataRequest(args) ==
    PresetRequest(args, <<"eventName">>, <<"eventCount">>)

\* ------------------------------------------------------------------ inputs
\* process.env: each of the two names is set or absent
EnvSet ==
    {a @@ b : a \in Opt("GA4_PROPERTY_ID", {"111"}),
              b \in Opt("GA_PROPERTY_ID", {"222"})}

PropertyIdArgs == Opt("propertyId", {"", "999"})

Names == {"country", "activeUsers"}

NameLists == SeqsUpTo(Names, MaxLen)

Ranges == {[startDate |-> "2024-01-01", endDate |-> "2024-01-31"]}

Dates == {"", "2024-01-01"}

Extras ==
    {NoObj,
     [dimensionFilter |-> "dimFilter", metricFilter |-> "metFilter",
      limit |-> 10, offset |-> 0, orderBys |-> "order"]}

\* well-typed argument objects of query_analytics and get_custom_report
ReportArgs ==
    {p @@ r @@ d @@ m @@ x :
        p \in PropertyIdArgs,
        r \in {[dateRanges |-> l] : l \in SeqsUpTo(Ranges, MaxRanges)},
        d \in Opt("dimensions", NameLists),
        m \in {[metrics |-> l] : l \in NameLists},
        x \in Extras}

RealtimeArgs ==
    {p @@ d @@ m :
        p \in PropertyIdArgs,
        d \in Opt("dimensions", NameLists),
        m \in Opt("metrics", NameLists)}

PresetArgs ==
    {p @@ s @@ e :
        p \in PropertyIdArgs,
        s \in Opt("startDate", Dates),
        e \in Opt("endDate", Dates)}

\* what the backend may resolve with: [response, nextRequest, rawResponse]
EmptyReport ==
    JObj(<< [k |-> "rows", v |-> JArr(<<>>)],
            [k |-> "rowCount", v |-> JNum(0)] >>)

OneRowReport ==
    JObj(<< [k |-> "rows",
             v |-> JArr(<< JObj(<< [k |-> "value", v |-> JStr("5")] >>) >>)],
            [k |-> "rowCount", v |-> JNum(1)] >>)

RawResponse == JObj(<< [k |-> "status", v |-> JNum(200)] >>)

Responses ==
    {<<r, JNull, raw>> : r \in {EmptyReport, OneRowReport},
                         raw \in {JNull, RawResponse}}

\* the rich inputs, handed to one invocation at a time
Inputs ==
    [query_analytics |-> ReportArgs,
     get_realtime_data |-> RealtimeArgs,
     get_traffic_sources |-> PresetArgs,
     get_user_demographics |-> PresetArgs,
     get_page_performance |-> PresetArgs,
     get_conversion_data |-> PresetArgs,
     get_custom_report |-> ReportArgs,
     responses |-> Responses]

OneRange == << [startDate |-> "30daysAgo", endDate |-> "yesterday"] >>

\* one argument object per tool, handed to concurrent invocations
ConcInputs ==
    [query_analytics |->
        {[dateRanges |-> OneRange, metrics |-> <<"activeUsers">>],
         [dateRanges |-> OneRange, metrics |-> <<>>]},
     get_realtime_data |-> {[propertyId |-> "999"]},
     get_traffic_sources |-> {NoObj},
     get_user_demographics |->
        {[propertyId |-> "999", startDate |-> "2024-01-01"]},
     get_page_performance |-> {[endDate |-> "2024-01-01"]},
     get_conversion_data |-> {[propertyId |-> ""]},
     get_custom_report |->
        {[propertyId |-> "999", dateRanges |-> OneRange,
          dimensions |-> <<"country">>,
          metrics |-> <<"activeUsers", "country">>]},
     responses |-> {<<EmptyReport, JNull, JNull>>,
                    <<OneRowReport, JNull, RawResponse>>}]

\* ------------------------------------------------------------- invocations
IdleSlot ==
    [pc |-> "idle", tool |-> "", args |-> NoObj, op |-> "",
     request |-> NoObj, calls |-> 0, response |-> <<>>, output |-> NoObj]

\* a slot takes a new call once the outcome of its previous call was sent
Free(i) == invocation[i].pc = "idle"

\* the SDK validates args against inputSchema; only a valid call reaches the
\* handler, which builds the request and suspends at its one backend call
Dispatch(i, tool, args, valid, op, request) ==
    invocation' = [invocation EXCEPT ![i] =
        IF valid
        THEN [pc |-> "awaiting", tool |-> tool, args |-> args, op |-> op,
              request |-> request, calls |-> 1, response |-> <<>>,
              output |-> NoObj]
        ELSE [pc |-> "rejected", tool |-> tool, args |-> args, op |-> "",
              request |-> NoObj, calls |-> 0, response |-> <<>>,
              output |-> NoObj]]

query_analytics(i, in) ==
    /\ Free(i)
    /\ \E args \in in.query_analytics :
          Dispatch(i, "query_analytics", args, ReportSchema(args),
                   "runReport", ReportRequest(args))
    /\ UNCHANGED <<env, propertyId, failures>>

get_realtime_data(i, in) ==
    /\ Free(i)
    /\ \E args \in in.get_realtime_data, applies \in BOOLEAN :
          Dispatch(i, "get_realtime_data", args, TRUE, "runRealtimeReport",
                   RealtimeRequest(RealtimeSchema(args, applies)))
    /\ UNCHANGED <<env, propertyId, failures>>

get_traffic_sources(i, in) ==
    /\ Free(i)
    /\ \E args \in in.get_traffic_sources, applies \in BOOLEAN :
          Dispatch(i, "get_traffic_sources", args, TRUE, "runReport",
                   TrafficSourcesRequest(PresetSchema(args, applies)))
    /\ UNCHANGED <<env, propertyId, failures>>

get_user_demographics(i, in) ==
    /\ Free(i)
    /\ \E args \in in.get_user_demographics, applies \in BOOLEAN :
          Dispatch(i, "get_user_demographics", args, TRUE, "runReport",
                   UserDemographicsRequest(PresetSchema(args, applies)))
    /\ UNCHANGED <<env, propertyId, failures>>

get_page_performance(i, in) ==
    /\ Free(i)
    /\ \E args \in in.get_page_performance, applies \in BOOLEAN :
          Dispatch(i, "get_page_performance", args, TRUE, "runReport",
                   PagePerformanceRequest(PresetSchema(args, applies)))
    /\ UNCHANGED <<env, propertyId, failures>>

get_conversion_data(i, in) ==
    /\ Free(i)
    /\ \E args \in in.get_conversion_data, applies \in BOOLEAN :
          Dispatch(i, "get_conversion_data", args, TRUE, "runReport",
                   ConversionDataRequest(PresetSchema(args, applies)))
    /\ UNCHANGED <<env, propertyId, failures>>

get_custom_report(i, in) ==
    /\ Free(i)
    /\ \E args \in in.get_custom_report, applies \in BOOLEAN :
          Dispatch(i, "get_custom_report", args, ReportSchema(args),
                   "runReport",
                   ReportRequest(CustomReportDefaults(args, applies)))
    /\ UNCHANGED <<env, propertyId, failures>>

\* ------------------------------------------------- after the backend call
\* the value the handler's await yields: the settlement of its own promise
AwaitedShared(i, tuple) ==
    IF \E j \in Slots : j # i /\ Len(invocation[j].response) > 0
    THEN invocation[CHOOSE j \in Slots :
                        j # i /\ Len(invocation[j].response) > 0].response
    ELSE tuple

Awaited(i, tuple) == tuple

\* const [response] = <tuple>; return toToolTextContent(response);
HandlerReturn(s, tuple) ==
    [s EXCEPT !.pc = "done", !.output = toToolTextContent(tuple[1])]

\* a rejected await throws out of the handler: nothing catches it
HandlerThrowRetry(s) ==
    IF s.calls < 2 THEN [s EXCEPT !.calls = @ + 1] ELSE [s EXCEPT !.pc = "failed"]

HandlerThrow(s) == [s EXCEPT !.pc = "failed"]

BackendResolve(i, in) ==
    /\ invocation[i].pc = "awaiting"
    /\ \E tuple \in in.responses :
          invocation' = [invocation EXCEPT ![i] =
              HandlerReturn([@ EXCEPT !.response = tuple], Awaited(i, tuple))]
    /\ UNCHANGED <<env, propertyId, failures>>

BackendReject(i) ==
    /\ invocation[i].pc = "awaiting"
    /\ failures < MaxFailures
    /\ invocation' = [invocation EXCEPT ![i] = HandlerThrow(@)]
    /\ failures' = failures + 1
    /\ UNCHANGED <<env, propertyId>>

\* the connected server sends the caller the outcome of an ended call (the
\* envelope, the handler's failure or the validation failure) and goes on
\* serving: the slot is free again
Respond(i) ==
    /\ invocation[i].pc \in {"rejected", "done", "failed"}
    /\ invocation' = [invocation EXCEPT ![i] = IdleSlot]
    /\ UNCHANGED <<env, propertyId, failures>>

\* ------------------------------------------------------------ specifications
Init ==
    /\ env \in EnvSet
    /\ propertyId = JsOr(Get(env, "GA4_PROPERTY_ID"), Get(env, "GA_PROPERTY_ID"))
    /\ invocation = [i \in Slots |-> IdleSlot]
    /\ failures = 0

Step(i, in) ==
    \/ query_analytics(i, in)
    \/ get_realtime_data(i, in)
    \/ get_traffic_sources(i, in)
    \/ get_user_demographics(i, in)
    \/ get_page_performance(i, in)
    \/ get_conversion_data(i, in)
    \/ get_custom_report(i, in)
    \/ BackendResolve(i, in)
    \/ BackendReject(i)
    \/ Respond(i)

\* the transport dispatches one invocation at a time
Next == Step(1, Inputs)

Spec == Init /\ [][Next]_vars

\* the host runtime serves up to MaxInv invocations concurrently
NextConc == \E i \in Slots : Step(i, ConcInputs)

SpecConc == Init /\ [][NextConc]_vars

\* ================================================================== claims
\* the handler of slot i ran and issued its backend call
Issued(i) == invocation[i].pc \in {"awaiting", "done", "failed"}

\* one { name } record per supplied name, in the supplied order
Wrapped(list, names) ==
    /\ Len(list) = Len(names)
    /\ \A j \in 1..Len(names) : list[j] = [name |-> names[j]]

\* C1: whenever a call supplies a propertyId override (the empty string
\* included) while a process-wide default is configured, the property sent to
\* the backend is the one derived from the override, never from the default.
C1_OverrideWins ==
    \A i \in Slots :
        (/\ Issued(i)
         /\ "propertyId" \in DOMAIN invocation[i].args
         /\ propertyId # undefined)
        => Get(invocation[i].request, "property")
              = "properties/" \o invocation[i].args.propertyId

\* C2: every request handed to the backend has a non-empty metrics list, and
\* a non-empty date-range list where it carries one, for every schema-valid
\* argument object (get_realtime_data with metrics [] included).
C2_NonEmptyLists ==
    \A i \in Slots :
        Issued(i) =>
            /\ Len(invocation[i].request.metrics) > 0
            /\ ("dateRanges" \in DOMAIN invocation[i].request
                    => Len(invocation[i].request.dateRanges) > 0)

\* C3: query_analytics or get_custom_report called with an empty metrics list
\* or an empty dateRanges list ends as an input-validation failure, and no
\* backend call is issued for that invocation.
C3_EmptyListsRejected ==
    \A i \in Slots :
        (/\ invocation[i].tool \in {"query_analytics", "get_custom_report"}
         /\ \/ Len(invocation[i].args.metrics) = 0
            \/ Len(invocation[i].args.dateRanges) = 0)
        => /\ invocation[i].pc = "rejected"
           /\ invocation[i].calls = 0
           /\ invocation[i].op = ""
           /\ invocation[i].request = NoObj
           /\ invocation[i].output = NoObj

C3_Witness ==
    /\ invocation[1].tool = "get_custom_report"
    /\ Len(invocation[1].args.metrics) = 0
    /\ Len(invocation[1].args.dateRanges) > 0
    /\ invocation[1].pc = "rejected"

\* C4: an invocation whose backend call rejects ends as a failure with no
\* output envelope; the backend is called exactly once per invocation (no
\* retry); and after failed invocations the server goes on taking calls.
C4_FailureIsTerminalAndLocal ==
    \A i \in Slots :
        /\ Issued(i) => invocation[i].calls = 1
        /\ invocation[i].pc = "failed" =>
              /\ invocation[i].output = NoObj
              /\ Len(invocation[i].response) = 0
              /\ ENABLED Respond(i)
        /\ invocation[i].pc = "idle" => ENABLED get_traffic_sources(i, Inputs)

C4_Witness ==
    /\ failures = MaxFailures
    /\ failures >= 2
    /\ invocation[1].pc = "done"
    /\ invocation[1].calls = 1
    /\ invocation[1].output # NoObj

\* C5: with no propertyId override and neither GA4_PROPERTY_ID nor
\* GA_PROPERTY_ID configured, the handler still issues its backend call, and
\* the request's property is undefined.
C5_UnresolvedPropertyStillCalls ==
    \A i \in Slots :
        (/\ invocation[i].pc \notin {"idle", "rejected"}
         /\ "propertyId" \notin DOMAIN invocation[i].args
         /\ env = NoObj)
        => /\ propertyId = undefined
           /\ invocation[i].calls = 1
           /\ invocation[i].op \in {"runReport", "runRealtimeReport"}
           /\ "property" \notin DOMAIN invocation[i].request

C5_Witness ==
    /\ env = NoObj
    /\ invocation[1].pc = "awaiting"
    /\ invocation[1].tool = "get_traffic_sources"
    /\ "propertyId" \notin DOMAIN invocation[1].args
    /\ "property" \notin DOMAIN invocation[1].request

\* C6: get_realtime_data sends the realtime operation dimensions
\* [{name: "country"}] and metrics [{name: "activeUsers"}] when neither is
\* supplied; when one is supplied, only the omitted one takes its default.
C6_RealtimeDefaults ==
    \A i \in Slots :
        (Issued(i) /\ invocation[i].tool = "get_realtime_data") =>
            LET a == invocation[i].args
                r == invocation[i].request
            IN  /\ invocation[i].op = "runRealtimeReport"
                /\ IF "dimensions" \in DOMAIN a
                   THEN Wrapped(r.dimensions, a.dimensions)
                   ELSE r.dimensions = << [name |-> "country"] >>
                /\ IF "metrics" \in DOMAIN a
                   THEN Wrapped(r.metrics, a.metrics)
                   ELSE r.metrics = << [name |-> "activeUsers"] >>

C6_Witness ==
    /\ invocation[1].pc = "awaiting"
    /\ invocation[1].tool = "get_realtime_data"
    /\ DOMAIN invocation[1].args = {}
    /\ invocation[1].request.dimensions = << [name |-> "country"] >>
    /\ invocation[1].request.metrics = << [name |-> "activeUsers"] >>

\* the preset table of the specification, as { name } records
PresetTable ==
    [get_traffic_sources |->
        [dimensions |-> << [name |-> "source"], [name |-> "medium"] >>,
         metrics |-> << [name |-> "sessions"] >>],
     get_user_demographics |->
        [dimensions |-> << [name |-> "country"], [name |-> "city"] >>,
         metrics |-> << [name |-> "activeUsers"] >>],
     get_page_performance |->
        [dimensions |-> << [name |-> "pagePath"] >>,
         metrics |-> << [name |-> "screenPageViews"],
                        [name |-> "averageSessionDuration"] >>],
     get_conversion_data |->
        [dimensions |-> << [name |-> "eventName"] >>,
         metrics |-> << [name |-> "eventCount"] >>]]

\* C7: each fixed-preset tool sends exactly one date range, "7daysAgo" to
\* "today" when no date is supplied, with the tool's fixed dimensions and
\* metrics; a supplied startDate or endDate replaces only its own default.
C7_PresetDefaults ==
    \A i \in Slots :
        (Issued(i) /\ invocation[i].tool \in DOMAIN PresetTable) =>
            LET a == invocation[i].args
                r == invocation[i].request
            IN  /\ invocation[i].op = "runReport"
                /\ Len(r.dateRanges) = 1
                /\ r.dateRanges[1].startDate =
                      (IF "startDate" \in DOMAIN a THEN a.startDate ELSE "7daysAgo")
                /\ r.dateRanges[1].endDate =
                      (IF "endDate" \in DOMAIN a THEN a.endDate ELSE "today")
                /\ r.dimensions = PresetTable[invocation[i].tool].dimensions
                /\ r.metrics = PresetTable[invocation[i].tool].metrics

C7_Witness ==
    /\ invocation[1].pc = "awaiting"
    /\ invocation[1].tool = "get_page_performance"
    /\ DOMAIN invocation[1].args = {}
    /\ invocation[1].request.dateRanges =
          << [startDate |-> "7daysAgo", endDate |-> "today"] >>

\* C8: for query_analytics, get_custom_report and get_realtime_data the
\* dimensions and metrics sent are one { name } record per supplied name, in
\* the supplied order, duplicates kept, nothing added or dropped.
C8_NamesWrappedInOrder ==
    \A i \in Slots :
        (/\ Issued(i)
         /\ invocation[i].tool \in
               {"query_analytics", "get_custom_report", "get_realtime_data"})
        => \A key \in {"dimensions", "metrics"} :
              key \in DOMAIN invocation[i].args =>
                  Wrapped(invocation[i].request[key], invocation[i].args[key])

C8_Witness ==
    /\ invocation[1].pc = "awaiting"
    /\ invocation[1].tool = "query_analytics"
    /\ "dimensions" \in DOMAIN invocation[1].args
    /\ invocation[1].args.dimensions = <<"activeUsers", "country">>
    /\ invocation[1].args.metrics = <<"country", "country">>
    /\ invocation[1].request.metrics =
          << [name |-> "country"], [name |-> "country"] >>

\* JSON.stringify(result, null, 2) of the two backend results, written out
ExpectedText(result) ==
    IF result = EmptyReport
    THEN "{\n  \"rows\": [],\n  \"rowCount\": 0\n}"
    ELSE "{\n  \"rows\": [\n    {\n      \"value\": \"5\"\n    }\n  ],\n  \"rowCount\": 1\n}"

\* C9: a successful invocation returns an envelope of exactly one block, of
\* type text, whose text is the 2-space-indented serialization of the first
\* element of the backend's response tuple; the other elements play no part.
C9_EnvelopeIsFirstElement ==
    \A i \in Slots :
        invocation[i].pc = "done" =>
            /\ DOMAIN invocation[i].output = {"content"}
            /\ Len(invocation[i].output.content) = 1
            /\ invocation[i].output.content[1].type = "text"
            /\ invocation[i].output.content[1].text =
                  ExpectedText(invocation[i].response[1])

C9_Witness ==
    /\ invocation[1].pc = "done"
    /\ invocation[1].response[1] = OneRowReport
    /\ invocation[1].response[3] = RawResponse
    /\ invocation[1].output.content[1].text = ExpectedText(OneRowReport)

\* what concurrent invocations may not share
Isolated ==
    /\ \A i \in Slots :
          invocation[i].pc = "done" =>
              invocation[i].output.content[1].text =
                  ExpectedText(invocation[i].response[1])
    /\ \A i, j \in Slots :
          (/\ Issued(i) /\ Issued(j)
           /\ invocation[i].tool = invocation[j].tool
           /\ invocation[i].args = invocation[j].args)
          => invocation[i].request = invocation[j].request

\* C10: under any interleaving of invocations suspended at their backend
\* calls, a request depends only on its own arguments and the process-wide
\* default, an output only on the response to its own call, a step of one
\* invocation leaves every other one as it was, and the process-wide default
\* keeps its startup value.
C10_Independent ==
    /\ []Isolated
    /\ [][/\ propertyId' = propertyId
          /\ \A i, j \in Slots :
                (i # j /\ invocation[i]' # invocation[i])
                    => invocation[j]' = invocation[j]]_vars

C10_Witness ==
    /\ invocation[1].pc = "done"
    /\ invocation[2].pc = "done"
    /\ invocation[1].tool # invocation[2].tool
    /\ invocation[1].response # invocation[2].response
    /\ invocation[1].output # invocation[2].output

====
